---------------------------- MODULE Spec2Model ----------------------------
(***************************************************************************)
(* A model of payment_transaction.py: the TransactionManager that lists    *)
(* the 'request:mvola:' keys of a Redis database, ingests transaction      *)
(* identifiers from a CSV export and from a plain-text file, and compares  *)
(* the three collections, together with the top-level script that runs     *)
(* these steps in order.                                                   *)
(*                                                                         *)
(* Representation.  A Python str is a sequence of one-character strings.   *)
(* A bytes object is the record [bytes |-> s] over the same characters     *)
(* (every key and value of the model is ASCII, where UTF-8 decoding keeps  *)
(* the characters and changes the type).  A Python value is None or a      *)
(* list; the outcome of a call is a returned value or a raised exception.  *)
(***************************************************************************)
EXTENDS Integers, Sequences, FiniteSets, TLC

VARIABLES
    store,                          \* the Redis database: key (bytes) -> hash
    pc,                             \* the script's next statement (its line)
    exc,                            \* the uncaught exception that ended the script
    transaction_list_from_redis,    \* module globals of the script
    transaction_list_from_csv,
    transaction_list_from_txt,
    call                            \* the last method invocation and its outcome

vars == <<store, pc, exc, transaction_list_from_redis,
          transaction_list_from_csv, transaction_list_from_txt, call>>

(***************************************************************************)
(* Bounds of the model.                                                    *)
(***************************************************************************)
MaxRows == 2        \* rows of a CSV table
MaxLines == 3       \* lines of a text file
MaxIds == 2         \* length of an identifier list handed to a method directly

(***************************************************************************)
(* Python values and call outcomes.                                        *)
(***************************************************************************)
None == [type |-> "NoneType"]
List(s) == [type |-> "list", items |-> s]
Unbound == [type |-> "unbound"]
IsList(v) == v.type = "list"

Return(v) == [kind |-> "return", value |-> v]
Raise(e) == [kind |-> "raise", value |-> e]
Raised(o) == o.kind = "raise"

Range(s) == {s[i] : i \in 1..Len(s)}

(***************************************************************************)
(* Strings.                                                                *)
(***************************************************************************)
Whitespace == {" ", "\t", "\n", "\r"}

RECURSIVE lstrip(_)
lstrip(s) ==
    IF s # <<>> /\ Head(s) \in Whitespace THEN lstrip(Tail(s)) ELSE s

RECURSIVE rstrip(_)
rstrip(s) ==
    IF s # <<>> /\ s[Len(s)] \in Whitespace
    THEN rstrip(SubSeq(s, 1, Len(s) - 1))
    ELSE s

\* str.strip()
strip(s) == rstrip(lstrip(s))

\* startswith with the last character of the prefix left unchecked
startswith_short(s, p) ==
    Len(s) >= Len(p) /\ SubSeq(s, 1, Len(p) - 1) = SubSeq(p, 1, Len(p) - 1)

\* str.startswith(p)
startswith(s, p) == Len(s) >= Len(p) /\ SubSeq(s, 1, Len(p)) = p

\* bytes.decode('utf-8') and the client's encoding of a str argument
decode(b) == b.bytes
encode(s) == [bytes |-> s]

key_prefix == <<"r", "e", "q", "u", "e", "s", "t", ":", "m", "v", "o", "l", "a", ":">>

(***************************************************************************)
(* The Redis database and the client calls the manager makes on it.        *)
(* `fault` says that the connection fails during the call: the client then *)
(* raises redis.ConnectionError from the first command it sends.           *)
(***************************************************************************)
K1 == key_prefix \o <<"1">>
K2 == key_prefix \o <<"2">>
K3 == key_prefix \o <<"3">>
\* keys of other applications in the same database
OtherKey == <<"t", "r", "a", "n", "s", "a", "c", "t", "i", "o", "n", ":", "1">>
NearKey == <<"r", "e", "q", "u", "e", "s", "t", ":", "m", "v", "o", "l", "a", "1">>

StoreKeys == {K1, K2, OtherKey, NearKey}

\* the hash stored under a key
HashOf(k) ==
    (encode(<<"k", "e", "y">>) :> encode(k))
        @@ (encode(<<"s", "e", "r", "v", "i", "c", "e", "_", "t", "y", "p", "e">>)
                :> encode(<<"t", "v">>))

Stores == {[b \in {encode(k) : k \in S} |-> HashOf(decode(b))] : S \in SUBSET StoreKeys}

\* the orders in which KEYS may reply
Orderings(S) ==
    {s \in [1..Cardinality(S) -> S] : \A i, j \in 1..Cardinality(S) : s[i] = s[j] => i = j}

r_keys(st, reply, fault) ==
    IF fault THEN Raise("ConnectionError") ELSE Return(reply)

r_exists(st, name, fault) ==
    IF fault THEN Raise("ConnectionError") ELSE Return(encode(name) \in DOMAIN st)

r_hgetall(st, name, fault) ==
    IF fault THEN Raise("ConnectionError") ELSE Return(st[encode(name)])

IsBytes(v) == "bytes" \in DOMAIN v

_redis_to_json(transactions) ==
    [f \in {decode(k) : k \in DOMAIN transactions} |->
        LET value == transactions[encode(f)]
        IN  IF IsBytes(value) THEN decode(value) ELSE value]

\* the comprehension of lines 48-51 over the reply of KEYS
RECURSIVE prefixed(_)
prefixed(transactions) ==
    IF transactions = <<>> THEN <<>>
    ELSE IF startswith(decode(Head(transactions)), key_prefix)
         THEN <<decode(Head(transactions))>> \o prefixed(Tail(transactions))
         ELSE prefixed(Tail(transactions))

get_transactions_from_redis(st, reply, fault) ==
    LET transactions == r_keys(st, reply, fault)
    IN  IF Raised(transactions) THEN transactions
        ELSE Return(List(prefixed(transactions.value)))

\* the loop of lines 81-87, from element i on
RECURSIVE details_loop(_, _, _, _, _)
details_loop(st, items, i, transaction_details, fault) ==
    IF i > Len(items) THEN Return(List(transaction_details))
    ELSE LET found == r_exists(st, items[i], fault)
         IN  IF Raised(found) THEN found
             ELSE IF found.value
             THEN LET transactions == r_hgetall(st, items[i], fault)
                  IN  IF Raised(transactions) THEN transactions
                      ELSE details_loop(st, items, i + 1,
                               Append(transaction_details,
                                      _redis_to_json(transactions.value)),
                               fault)
             ELSE details_loop(st, items, i + 1, transaction_details, fault)

\* `not x` of a list or None
falsy(v) == v = None \/ (IsList(v) /\ v.items = <<>>)

get_transaction_details_from_redis(st, transaction_list, fault) ==
    IF falsy(transaction_list) THEN Return(List(<<>>))
    ELSE details_loop(st, transaction_list.items, 1, <<>>, fault)

(***************************************************************************)
(* CSV ingestion.  A date string is the record of its layout and fields;   *)
(* strptime succeeds when the layout is the one asked for.  An empty cell  *)
(* is read by pandas as the float NaN, here the one-element sequence NaN,  *)
(* which is no string of characters.                                       *)
(***************************************************************************)
TimestampFormat == "%Y-%m-%dT%H:%M:%S.%fZ"
DateFormat == "%Y-%m-%d"

Timestamp(Y, m, d, H, M, S, f) ==
    [format |-> TimestampFormat, Y |-> Y, m |-> m, d |-> d,
     H |-> H, M |-> M, S |-> S, f |-> f]
DateString(Y, m, d) == [format |-> DateFormat, Y |-> Y, m |-> m, d |-> d]
NaN == <<"float('nan')">>

IsNaN(v) == v = NaN

\* datetime.strptime(s, fmt)
strptime(s, fmt) ==
    IF s.format # fmt THEN Raise("ValueError") ELSE Return(s)

\* datetime.date()
date(dt) == [Y |-> dt.Y, m |-> dt.m, d |-> dt.d]

_timestamp_to_date(timestamp) ==
    LET dt == strptime(timestamp, TimestampFormat)
    IN  IF Raised(dt) THEN dt ELSE Return(date(dt.value))

_str_to_date(str_date) ==
    LET dt == strptime(str_date, DateFormat)
    IN  IF Raised(dt) THEN dt ELSE Return(date(dt.value))

\* date_lt with the cutoff day itself let through
date_le(a, b) ==
    \/ a.Y < b.Y
    \/ a.Y = b.Y /\ a.m < b.m
    \/ a.Y = b.Y /\ a.m = b.m /\ a.d <= b.d

\* date.__lt__
date_lt(a, b) ==
    \/ a.Y < b.Y
    \/ a.Y = b.Y /\ a.m < b.m
    \/ a.Y = b.Y /\ a.m = b.m /\ a.d < b.d

CutoffYear == 2024
CutoffMonth == 8
CutoffDay == 31

\* str(x) of a cell
str(x) == IF IsNaN(x) THEN <<"n", "a", "n">> ELSE x

Digits == <<"0", "1", "2", "3", "4", "5", "6", "7", "8", "9">>

\* '{}'.format(n) of a non-negative integer
RECURSIVE format_int(_)
format_int(n) ==
    IF n < 10 THEN <<Digits[n + 1]>>
    ELSE format_int(n \div 10) \o <<Digits[(n % 10) + 1]>>

\* pd.read_csv(path)
read_csv(file) ==
    IF file.readable THEN Return(file.table) ELSE Raise("FileNotFoundError")

\* df[[c1, c2]]
select(df, columns) ==
    IF columns \subseteq df.columns
    THEN Return([i \in 1..Len(df.rows) |-> [c \in columns |-> df.rows[i][c]]])
    ELSE Raise("KeyError")

\* DataFrame.drop_duplicates(): the first occurrence of each row, in order
RECURSIVE drop_duplicates(_)
drop_duplicates(rows) ==
    IF rows = <<>> THEN <<>>
    ELSE LET rest == drop_duplicates(SubSeq(rows, 1, Len(rows) - 1))
             last == rows[Len(rows)]
         IN  IF last \in Range(rest) THEN rest ELSE Append(rest, last)

\* the loop of lines 157-163, from row i on
RECURSIVE key_loop(_, _, _, _)
key_loop(grouped_df, i, filtered_keys, cutoff_date) ==
    IF i > Len(grouped_df) THEN Return(filtered_keys)
    ELSE LET row == grouped_df[i]
             key == strip(str(row["key"]))
             dt == _timestamp_to_date(row["date"])
         IN  IF Raised(dt) THEN dt
             ELSE IF date_lt(dt.value, cutoff_date)
             THEN key_loop(grouped_df, i + 1, Append(filtered_keys, key), cutoff_date)
             ELSE key_loop(grouped_df, i + 1, filtered_keys, cutoff_date)

_process_key_transactions(df) ==
    LET selected == select(df, {"key", "date"})
    IN  IF Raised(selected) THEN Return(List(<<>>))
        ELSE LET grouped_df == drop_duplicates(selected.value)
                 cutoff_date ==
                     _str_to_date(DateString(CutoffYear, CutoffMonth, CutoffDay))
                 filtered_keys == key_loop(grouped_df, 1, <<>>, cutoff_date.value)
             IN  IF Raised(cutoff_date) \/ Raised(filtered_keys)
                 THEN Return(List(<<>>))
                 ELSE Return(List(filtered_keys.value))

\* id_loop comparing obs without trimming it
RECURSIVE id_loop_untrimmed(_, _, _)
id_loop_untrimmed(grouped_df, i, completed_transactions) ==
    IF i > Len(grouped_df) THEN Return(completed_transactions)
    ELSE LET row == grouped_df[i]
         IN  IF IsNaN(row["obs"]) THEN Raise("AttributeError")
             ELSE IF row["obs"] = <<"O", "K">>
             THEN id_loop_untrimmed(grouped_df, i + 1,
                      Append(completed_transactions,
                             key_prefix \o format_int(row["transaction_id"])))
             ELSE id_loop_untrimmed(grouped_df, i + 1, completed_transactions)

\* the loop of lines 196-198, from row i on
RECURSIVE id_loop(_, _, _)
id_loop(grouped_df, i, completed_transactions) ==
    IF i > Len(grouped_df) THEN Return(completed_transactions)
    ELSE LET row == grouped_df[i]
         IN  IF IsNaN(row["obs"]) THEN Raise("AttributeError")
             ELSE IF strip(row["obs"]) = <<"O", "K">>
             THEN id_loop(grouped_df, i + 1,
                      Append(completed_transactions,
                             key_prefix \o format_int(row["transaction_id"])))
             ELSE id_loop(grouped_df, i + 1, completed_transactions)

_process_transaction_id(df) ==
    LET selected == select(df, {"transaction_id", "obs"})
    IN  IF Raised(selected) THEN Return(List(<<>>))
        ELSE LET grouped_df == drop_duplicates(selected.value)
                 completed_transactions == id_loop(grouped_df, 1, <<>>)
             IN  IF Raised(completed_transactions)
                 THEN Return(List(<<>>))
                 ELSE Return(List(completed_transactions.value))

\* get_transactions_from_csv without its try/except
get_transactions_from_csv_uncaught(csv_file) ==
    LET df == read_csv(csv_file.data)
    IN  IF Raised(df) THEN df
        ELSE IF csv_file.type = "key" THEN _process_key_transactions(df.value)
        ELSE IF csv_file.type = "transactionID" THEN _process_transaction_id(df.value)
        ELSE Return(None)

get_transactions_from_csv(csv_file) ==
    LET df == read_csv(csv_file.data)
        body ==
            IF Raised(df) THEN df
            ELSE IF csv_file.type = "key" THEN _process_key_transactions(df.value)
            ELSE IF csv_file.type = "transactionID"
            THEN _process_transaction_id(df.value)
            ELSE Return(None)
    IN  IF Raised(body) THEN Return(List(<<>>)) ELSE body

(***************************************************************************)
(* Plain-text ingestion.  A text file is the sequence of lines its         *)
(* iterator yields, each with its line terminator.                         *)
(***************************************************************************)
\* open(path, 'r')
open(file) ==
    IF file.readable THEN Return(file.lines) ELSE Raise("FileNotFoundError")

\* the loop of lines 215-219, from line i on
RECURSIVE txt_loop(_, _, _)
txt_loop(file_transaction, i, transaction_list) ==
    IF i > Len(file_transaction) THEN transaction_list
    ELSE LET transaction == file_transaction[i]
             transactionID == strip(transaction)
         IN  IF transactionID # <<>>
             THEN txt_loop(file_transaction, i + 1,
                      Append(transaction_list, strip(transaction)))
             ELSE txt_loop(file_transaction, i + 1, transaction_list)

\* get_transactions_from_txt_file dropping repeated identifiers
get_transactions_from_txt_file_unique(txt_file) ==
    LET file_transaction == open(txt_file)
    IN  IF Raised(file_transaction) THEN Return(None)
        ELSE Return(List(drop_duplicates(txt_loop(file_transaction.value, 1, <<>>))))

get_transactions_from_txt_file(txt_file) ==
    LET file_transaction == open(txt_file)
    IN  IF Raised(file_transaction) THEN Return(None)
        ELSE Return(List(txt_loop(file_transaction.value, 1, <<>>)))

(***************************************************************************)
(* Reconciliation.  The outcome carries the database after the call and    *)
(* the local transactions_to_delete of line 252.                           *)
(***************************************************************************)
\* set(x)
set(x) == IF IsList(x) THEN Return(Range(x.items)) ELSE Raise("TypeError")

\* the comparison with line 256 live: Redis against the text file
compare_redis_vs_txt(st, transaction_from_redis, transaction_from_csv, transaction_from_txt) ==
    LET redis_transaction_set == set(transaction_from_redis)
        csv_transaction_set == set(transaction_from_csv)
        txt_transaction_set == set(transaction_from_txt)
    IN  IF Raised(redis_transaction_set) \/ Raised(csv_transaction_set)
               \/ Raised(txt_transaction_set)
        THEN [kind |-> "raise", value |-> "TypeError", store |-> st]
        ELSE LET transactions_to_delete ==
                     redis_transaction_set.value \cap txt_transaction_set.value
             IN  [kind |-> "return", value |-> None, store |-> st,
                  transactions_to_delete |-> transactions_to_delete]

\* the comparison with the pipeline of lines 268-277 live
compare_with_delete(st, transaction_from_redis, transaction_from_csv, transaction_from_txt) ==
    LET redis_transaction_set == set(transaction_from_redis)
        csv_transaction_set == set(transaction_from_csv)
        txt_transaction_set == set(transaction_from_txt)
    IN  IF Raised(redis_transaction_set) \/ Raised(csv_transaction_set)
               \/ Raised(txt_transaction_set)
        THEN [kind |-> "raise", value |-> "TypeError", store |-> st]
        ELSE LET transactions_to_delete ==
                     redis_transaction_set.value \cap csv_transaction_set.value
                 kept == DOMAIN st \ {encode(k) : k \in transactions_to_delete}
             IN  [kind |-> "return", value |-> None,
                  store |-> [b \in kept |-> st[b]],
                  transactions_to_delete |-> transactions_to_delete]

compare_transaction_and_delete(st, transaction_from_redis, transaction_from_csv, transaction_from_txt) ==
    LET redis_transaction_set == set(transaction_from_redis)
        csv_transaction_set == set(transaction_from_csv)
        txt_transaction_set == set(transaction_from_txt)
    IN  IF Raised(redis_transaction_set) \/ Raised(csv_transaction_set)
               \/ Raised(txt_transaction_set)
        THEN [kind |-> "raise", value |-> "TypeError", store |-> st]
        ELSE LET transactions_to_delete ==
                     redis_transaction_set.value \cap csv_transaction_set.value
             IN  [kind |-> "return", value |-> None, store |-> st,
                  transactions_to_delete |-> transactions_to_delete]

(***************************************************************************)
(* The inputs the environment can supply.                                  *)
(***************************************************************************)
SeqsUpTo(S, n) == UNION {[1..k -> S] : k \in 0..n}

Unreadable == [readable |-> FALSE]

KeyCells == {K1, <<" ">> \o K1 \o <<" ">>, K2}
DateCells ==
    {Timestamp(2024, 8, 30, 23, 59, 59, 999999),
     Timestamp(2024, 8, 31, 0, 0, 0, 0),
     Timestamp(2023, 12, 31, 12, 0, 0, 0),
     Timestamp(2025, 1, 1, 0, 0, 0, 0),
     DateString(2024, 8, 30)}
KeyRows == [key : KeyCells, date : DateCells]

IdCells == {1, 20}
ObsCells == {<<"O", "K">>, <<" ", "O", "K", " ">>, <<"o", "k">>, NaN}
IdRows == [transaction_id : IdCells, obs : ObsCells]

KeyTables == {[columns |-> {"key", "date"}, rows |-> r] : r \in SeqsUpTo(KeyRows, MaxRows)}
IdTables ==
    {[columns |-> {"transaction_id", "obs"}, rows |-> r] : r \in SeqsUpTo(IdRows, MaxRows)}

CsvFiles ==
    {Unreadable} \cup {[readable |-> TRUE, table |-> t] : t \in KeyTables \cup IdTables}

TypeTags == {"key", "transactionID", "other"}

EndedLines ==
    {<<"\n">>, <<" ", "\t", "\n">>, <<"a", "\n">>, <<" ", "a", " ", "\r", "\n">>,
     <<"a", " ", "b", "\n">>}
LastLines == EndedLines \cup {<<"b">>}
TxtContents ==
    {<<>>} \cup
    {Append(body, last) : body \in SeqsUpTo(EndedLines, MaxLines - 1), last \in LastLines}
TxtFiles == {Unreadable} \cup {[readable |-> TRUE, lines |-> c] : c \in TxtContents}

Ids == {K1, K2, K3}
Collections == {None} \cup {List(s) : s \in SeqsUpTo(Ids, MaxIds)}

(***************************************************************************)
(* The top-level script, lines 332-365: four statements in order.  An      *)
(* exception no method catches ends the script at the statement that       *)
(* raised it.                                                              *)
(***************************************************************************)
Init ==
    /\ store \in Stores
    /\ pc = "L336"
    /\ exc = "none"
    /\ transaction_list_from_redis = Unbound
    /\ transaction_list_from_csv = Unbound
    /\ transaction_list_from_txt = Unbound
    /\ call = [op |-> "none"]

Line336 ==
    /\ pc = "L336" /\ exc = "none"
    /\ \E reply \in Orderings(DOMAIN store), fault \in BOOLEAN :
         LET o == get_transactions_from_redis(store, reply, fault)
         IN  IF Raised(o)
             THEN /\ exc' = o.value
                  /\ UNCHANGED <<pc, transaction_list_from_redis>>
             ELSE /\ transaction_list_from_redis' = o.value
                  /\ pc' = "L352"
                  /\ UNCHANGED exc
    /\ UNCHANGED <<store, transaction_list_from_csv, transaction_list_from_txt, call>>

Line352 ==
    /\ pc = "L352" /\ exc = "none"
    /\ \E file \in CsvFiles :
         LET o == get_transactions_from_csv([data |-> file, type |-> "key"])
         IN  IF Raised(o)
             THEN /\ exc' = o.value
                  /\ UNCHANGED <<pc, transaction_list_from_csv>>
             ELSE /\ transaction_list_from_csv' = o.value
                  /\ pc' = "L358"
                  /\ UNCHANGED exc
    /\ UNCHANGED <<store, transaction_list_from_redis, transaction_list_from_txt, call>>

Line358 ==
    /\ pc = "L358" /\ exc = "none"
    /\ \E file \in TxtFiles :
         LET o == get_transactions_from_txt_file(file)
         IN  IF Raised(o)
             THEN /\ exc' = o.value
                  /\ UNCHANGED <<pc, transaction_list_from_txt>>
             ELSE /\ transaction_list_from_txt' = o.value
                  /\ pc' = "L361"
                  /\ UNCHANGED exc
    /\ UNCHANGED <<store, transaction_list_from_redis, transaction_list_from_csv, call>>

Line361 ==
    /\ pc = "L361" /\ exc = "none"
    /\ LET o == compare_transaction_and_delete(store, transaction_list_from_redis,
                    transaction_list_from_csv, transaction_list_from_txt)
       IN  /\ store' = o.store
           /\ call' = [op |-> "compare_transaction_and_delete", outcome |-> o]
           /\ IF Raised(o)
              THEN exc' = o.value /\ UNCHANGED pc
              ELSE pc' = "end" /\ UNCHANGED exc
    /\ UNCHANGED <<transaction_list_from_redis, transaction_list_from_csv,
                   transaction_list_from_txt>>

Next == Line336 \/ Line352 \/ Line358 \/ Line361

Spec == Init /\ [][Next]_vars

(***************************************************************************)
(* The methods called directly: one invocation of one method of a freshly  *)
(* constructed manager, on any input.                                      *)
(***************************************************************************)
Idle == call.op = "none"

CallGetTransactionsFromRedis ==
    /\ Idle
    /\ \E reply \in Orderings(DOMAIN store), fault \in BOOLEAN :
         call' = [op |-> "get_transactions_from_redis",
                  fault |-> fault,
                  outcome |-> get_transactions_from_redis(store, reply, fault)]
    /\ UNCHANGED <<store, pc, exc, transaction_list_from_redis,
                   transaction_list_from_csv, transaction_list_from_txt>>

CallGetTransactionDetailsFromRedis ==
    /\ Idle
    /\ \E transaction_list \in Collections, fault \in BOOLEAN :
         call' = [op |-> "get_transaction_details_from_redis",
                  transaction_list |-> transaction_list,
                  fault |-> fault,
                  outcome |-> get_transaction_details_from_redis(
                                  store, transaction_list, fault)]
    /\ UNCHANGED <<store, pc, exc, transaction_list_from_redis,
                   transaction_list_from_csv, transaction_list_from_txt>>

CallGetTransactionsFromCsv ==
    /\ Idle
    /\ \E file \in CsvFiles, type \in TypeTags :
         LET csv_file == [data |-> file, type |-> type]
         IN  call' = [op |-> "get_transactions_from_csv",
                      csv_file |-> csv_file,
                      outcome |-> get_transactions_from_csv(csv_file)]
    /\ UNCHANGED <<store, pc, exc, transaction_list_from_redis,
                   transaction_list_from_csv, transaction_list_from_txt>>

CallGetTransactionsFromTxtFile ==
    /\ Idle
    /\ \E txt_file \in TxtFiles :
         call' = [op |-> "get_transactions_from_txt_file",
                  txt_file |-> txt_file,
                  outcome |-> get_transactions_from_txt_file(txt_file)]
    /\ UNCHANGED <<store, pc, exc, transaction_list_from_redis,
                   transaction_list_from_csv, transaction_list_from_txt>>

CallCompareTransactionAndDelete ==
    /\ Idle
    /\ \E r \in Collections, c \in Collections, t \in Collections :
         LET o == compare_transaction_and_delete(store, r, c, t)
         IN  /\ call' = [op |-> "compare_transaction_and_delete",
                         transaction_from_redis |-> r,
                         transaction_from_csv |-> c,
                         transaction_from_txt |-> t,
                         outcome |-> o]
             /\ store' = o.store
    /\ UNCHANGED <<pc, exc, transaction_list_from_redis,
                   transaction_list_from_csv, transaction_list_from_txt>>

NextCalls ==
    \/ CallGetTransactionsFromRedis
    \/ CallGetTransactionDetailsFromRedis
    \/ CallGetTransactionsFromCsv
    \/ CallGetTransactionsFromTxtFile
    \/ CallCompareTransactionAndDelete

SpecCalls == Init /\ [][NextCalls]_vars

(***************************************************************************)
(* Properties.  Trimming, the prefix test and the calendar order are       *)
(* stated here on their own terms, not through the operators above.        *)
(***************************************************************************)
Min(S) == CHOOSE x \in S : \A y \in S : x <= y
Max(S) == CHOOSE x \in S : \A y \in S : y <= x

\* s without its leading and trailing whitespace
Trimmed(s) ==
    LET solid == {j \in 1..Len(s) : s[j] \notin Whitespace}
    IN  IF solid = {} THEN <<>> ELSE SubSeq(s, Min(solid), Max(solid))

\* s is the prefix followed by some suffix
HasPrefix(s) == \E n \in 0..Len(s) : s = key_prefix \o SubSeq(s, n + 1, Len(s))

\* the calendar day of a timestamp is before 2024-08-31
BeforeCutoff(t) == t.Y * 10000 + t.m * 100 + t.d < 20240831

Called(op) == call.op = op
Returned == call.outcome.kind = "return"

\* C1: the identifiers compare_transaction_and_delete selects are exactly
\* those in both the store collection and the csv collection; the text
\* collection, whatever it holds, has no part in the selection.
C1_SelectsStoreCsvIntersection ==
    (Called("compare_transaction_and_delete") /\ Returned) =>
        call.outcome.transactions_to_delete =
            Range(call.transaction_from_redis.items)
                \cap Range(call.transaction_from_csv.items)

\* K1 is in the store and the text collections only, K3 in the csv and the
\* text collections only: the selection is K2 alone.
C1_Witness ==
    /\ Called("compare_transaction_and_delete")
    /\ call.transaction_from_redis = List(<<K1, K2>>)
    /\ call.transaction_from_csv = List(<<K2, K3>>)
    /\ call.transaction_from_txt = List(<<K1, K3>>)
    /\ Returned
    /\ call.outcome.transactions_to_delete = {K2}

KeyIngestion ==
    /\ Called("get_transactions_from_csv")
    /\ call.csv_file.type = "key"
    /\ call.csv_file.data.readable
    /\ call.csv_file.data.table.columns = {"key", "date"}

IdIngestion ==
    /\ Called("get_transactions_from_csv")
    /\ call.csv_file.type = "transactionID"
    /\ call.csv_file.data.readable
    /\ call.csv_file.data.table.columns = {"transaction_id", "obs"}

CsvRows == call.csv_file.data.table.rows

\* C3: when every date of a key/date table parses, the keys returned are
\* the (trimmed) keys of exactly the rows dated before 2024-08-31, one per
\* distinct such row: a row of 2024-08-30 is in, a row of 2024-08-31 or
\* later adds nothing.
C3_KeysBeforeCutoff ==
    (KeyIngestion /\ \A r \in Range(CsvRows) : r.date.format = TimestampFormat) =>
        /\ Returned
        /\ IsList(call.outcome.value)
        /\ LET items == call.outcome.value.items
               early == {r \in Range(CsvRows) : BeforeCutoff(r.date)}
           IN  /\ \A r \in early : Trimmed(r.key) \in Range(items)
               /\ \A k \in Range(items) : \E r \in early : Trimmed(r.key) = k
               /\ Len(items) = Cardinality(early)

\* a row of the last instant of 2024-08-30 and a row of the first instant
\* of 2024-08-31: only the first row's key is returned
C3_Witness ==
    /\ KeyIngestion
    /\ CsvRows = <<[key |-> K1, date |-> Timestamp(2024, 8, 30, 23, 59, 59, 999999)],
                   [key |-> K2, date |-> Timestamp(2024, 8, 31, 0, 0, 0, 0)]>>
    /\ call.outcome = Return(List(<<K1>>))

\* the text '{}'.format gives for the transaction ids of the model
IdText(n) == IF n = 1 THEN <<"1">> ELSE <<"2", "0">>

\* C4: when every obs of a transaction_id/obs table is a string, the result
\* holds 'request:mvola:<transaction_id>' once for each distinct row whose
\* trimmed obs is exactly 'OK', and nothing else; every element carries the
\* prefix.
C4_OkRowsPrefixed ==
    (IdIngestion /\ \A r \in Range(CsvRows) : r.obs # NaN) =>
        /\ Returned
        /\ IsList(call.outcome.value)
        /\ LET items == call.outcome.value.items
               ok == {r \in Range(CsvRows) : Trimmed(r.obs) = <<"O", "K">>}
           IN  /\ \A i \in 1..Len(items) : HasPrefix(items[i])
               /\ Range(items) = {key_prefix \o IdText(r.transaction_id) : r \in ok}
               /\ Len(items) = Cardinality(ok)

\* ' OK ' is taken, 'ok' is not
C4_Witness ==
    /\ IdIngestion
    /\ CsvRows = <<[transaction_id |-> 1, obs |-> <<" ", "O", "K", " ">>],
                   [transaction_id |-> 20, obs |-> <<"o", "k">>]>>
    /\ call.outcome = Return(List(<<K1>>))

\* C5: the listing returns each store key that starts with 'request:mvola:'
\* once and no other key, whatever else the store holds, and the call
\* leaves the store as it was.
C5_ListingIsThePrefixedKeys ==
    /\ [](Called("get_transactions_from_redis") /\ Returned =>
            /\ IsList(call.outcome.value)
            /\ LET items == call.outcome.value.items
                   wanted == {k \in {decode(b) : b \in DOMAIN store} : HasPrefix(k)}
               IN  /\ Range(items) = wanted
                   /\ Len(items) = Cardinality(wanted))
    /\ [][call'.op = "get_transactions_from_redis" => store' = store]_vars

\* the store holds two prefixed keys, a key of another application and a
\* key that misses the prefix by its last character
C5_Witness ==
    /\ Called("get_transactions_from_redis")
    /\ DOMAIN store = {encode(k) : k \in StoreKeys}
    /\ call.outcome = Return(List(<<K2, K1>>))

\* reading or parsing the CSV source fails
CsvFailure ==
    \/ ~call.csv_file.data.readable
    \/ /\ call.csv_file.type = "key"
       /\ \/ ~({"key", "date"} \subseteq call.csv_file.data.table.columns)
          \/ \E r \in Range(CsvRows) : r.date.format # TimestampFormat
    \/ /\ call.csv_file.type = "transactionID"
       /\ \/ ~({"transaction_id", "obs"} \subseteq call.csv_file.data.table.columns)
          \/ \E r \in Range(CsvRows) : r.obs = NaN

\* C6: a failure while reading or parsing the CSV source is not raised to
\* the caller; the call returns the empty list, with none of the rows
\* processed before the failure.
C6_CsvFailureGivesEmptyList ==
    (Called("get_transactions_from_csv") /\ CsvFailure) =>
        call.outcome = Return(List(<<>>))

\* a row dated before the cutoff, then a row whose date does not parse
C6_Witness ==
    /\ KeyIngestion
    /\ CsvRows = <<[key |-> K1, date |-> Timestamp(2023, 12, 31, 12, 0, 0, 0)],
                   [key |-> K2, date |-> DateString(2024, 8, 30)]>>
    /\ call.outcome = Return(List(<<>>))

\* the lines of the text file that hold something besides whitespace
SolidLines(lines) == {i \in 1..Len(lines) : Trimmed(lines[i]) # <<>>}

\* the k-th element of a set of line numbers
Nth(S, k) == CHOOSE i \in S : Cardinality({j \in S : j <= i}) = k

\* C9: on a readable text file the result is, in file order, the trimmed
\* content of every line that is not blank: no element is empty or starts
\* or ends with whitespace, and a repeated identifier is kept each time.
C9_TextLinesTrimmedInOrder ==
    (Called("get_transactions_from_txt_file") /\ call.txt_file.readable) =>
        /\ Returned
        /\ IsList(call.outcome.value)
        /\ LET items == call.outcome.value.items
               lines == call.txt_file.lines
               solid == SolidLines(lines)
           IN  /\ Len(items) = Cardinality(solid)
               /\ \A k \in 1..Len(items) :
                    /\ items[k] = Trimmed(lines[Nth(solid, k)])
                    /\ items[k] # <<>>
                    /\ items[k][1] \notin Whitespace
                    /\ items[k][Len(items[k])] \notin Whitespace

\* an identifier, a blank line, the same identifier padded
C9_Witness ==
    /\ Called("get_transactions_from_txt_file")
    /\ call.txt_file.readable
    /\ call.txt_file.lines =
           <<<<"a", "\n">>, <<" ", "\t", "\n">>, <<" ", "a", " ", "\r", "\n">>>>
    /\ call.outcome = Return(List(<<<<"a">>, <<"a">>>>))

\* C7: the script goes on after a failed step; in particular, when the text
\* file could not be read, the reconciliation statement still completes.
C7_ScriptSurvivesUnreadableText ==
    (pc = "L361" /\ transaction_list_from_txt = None) => exc = "none"

\* C8: a store failure during a store-reading method is caught inside the
\* method, which returns None or an empty list.
C8_StoreFailureGivesSentinel ==
    (/\ call.op \in {"get_transactions_from_redis",
                     "get_transaction_details_from_redis"}
     /\ call.fault) =>
        /\ Returned
        /\ call.outcome.value \in {None, List(<<>>)}

\* C10: get_transactions_from_csv returns a list whatever the type tag.
C10_CsvAlwaysReturnsList ==
    Called("get_transactions_from_csv") =>
        Returned /\ IsList(call.outcome.value)

====
